---------------------------- MODULE Spec2Model ----------------------------
(***************************************************************************)
(* bircher: MainWindow and its ArchiveWriterThread                         *)
(* (src/bircher/_main_window.py).                                          *)
(*                                                                         *)
(* The interactive thread runs the handlers of MainWindow one at a time;   *)
(* a started ArchiveWriterThread runs run() concurrently and posts its     *)
(* step / completed / error signals to the interactive thread's event      *)
(* loop, which delivers them in emission order.                            *)
(***************************************************************************)
EXTENDS Integers, Sequences, FiniteSets

(* ------------------------------ bounds --------------------------------- *)
MaxImages == 2      \* longest image collection explored
MaxRuns == 2        \* number of archive runs started in one behaviour

(* ------------------------------ values --------------------------------- *)
\* Python's None; a present value v of an optional field is << v >>.
None == << >>

\* models.Image: a source path and the archive-relative path (posix_path).
\* p1 and p3 are different files with the same archive-relative path.
Images ==
    { [path |-> "p1", posix_path |-> "a"],
      [path |-> "p2", posix_path |-> "b"],
      [path |-> "p3", posix_path |-> "a"] }

\* Texts typed into the regex line edit: empty, two valid expressions and
\* one that re.compile rejects.
Texts == {"", "a", "b", "["}

\* Results of QFileDialog.getSaveFileName: "" when the dialog is cancelled.
ArchiveFiles == {"", "out.tar.gz"}

VARIABLES
    _images,           \* MainWindow._images (ConsensusImageList), in order
    regex_text,        \* text of _regex_line_edit
    pattern,           \* ImageTableModel's posix path pattern, or None
    regex_style,       \* background colour of _regex_line_edit
    selection,         \* rows selected in _image_table_view (0-based)
    remove_enabled,    \* _remove_selected_rows_button.isEnabled()
    create_enabled,    \* _create_archive_button.isEnabled()
    _thread,           \* MainWindow._thread: None or the id of a run
    workers,           \* running worker threads: run id -> enumerate index
    nruns,             \* number of ArchiveWriterThreads created so far
    queue,             \* signals emitted by workers, not yet delivered
    status,            \* message shown by _status_bar
    progress_hidden,   \* _progress_bar.isHidden()
    progress_max,      \* _progress_bar.maximum()
    progress_value,    \* _progress_bar.value()
    delivered,         \* history: signals handled since the last run start
    start_images       \* history: the collection when the last run started

vars == << _images, regex_text, pattern, regex_style, selection, remove_enabled,
           create_enabled, _thread, workers, nruns, queue, status,
           progress_hidden, progress_max, progress_value, delivered,
           start_images >>

(* ------------------------- pure helpers -------------------------------- *)
Max(S) == CHOOSE x \in S : \A y \in S : y <= x

\* re.compile(text) succeeds.
ValidRegex(text) == text # "["

\* pattern.search(posix_path) for the expressions of Texts.
Matches(p, posix_path) == p[1] = posix_path

\* _on_regex_line_edit_text_changed: the pattern handed to the table model.
posix_path_pattern(text) ==
    IF text # ""
    THEN IF ValidRegex(text) THEN << text >> ELSE None
    ELSE None

\* _on_regex_line_edit_text_changed: the style sheet of the line edit.
StyleSheet(text) ==
    IF text # ""
    THEN IF ValidRegex(text) THEN "white" ELSE "red"
    ELSE "white"

\* ImageTableModel: the images shown as rows under pattern p, in order.
Shown(img, p) == p = None \/ Matches(p, img.posix_path)

DisplayedRows(imgs, p) == SelectSeq(imgs, LAMBDA img : Shown(img, p))

\* ConsensusImageList.pop(row): 0-based index into the collection.
Pop(imgs, row) ==
    [ k \in 1..(Len(imgs) - 1) |-> IF k <= row THEN imgs[k] ELSE imgs[k + 1] ]

\* The loop of _on_remove_selected_rows_button_clicked: rows sorted in
\* descending order, each popped from the collection by its row number.
RECURSIVE PopRows(_, _)
PopRows(imgs, rows) ==
    IF rows = {}
    THEN imgs
    ELSE PopRows(Pop(imgs, Max(rows)), rows \ {Max(rows)})

\* len(set(img.posix_path for img in self._images)) == len(self._images)
DistinctPosixPaths(imgs) ==
    Cardinality({ imgs[k].posix_path : k \in 1..Len(imgs) }) = Len(imgs)

\* _update_button_states, remove button (faulty variant: run not consulted).
RemoveEnabledNoThreadCheck(thr, sel) == sel # {}

RemoveEnabled(thr, sel) == thr = None /\ sel # {}

\* _update_button_states, create button (faulty variants: no run check, no
\* duplicate check).
CreateEnabledNoThreadCheck(thr, imgs) ==
    Len(imgs) > 0 /\ DistinctPosixPaths(imgs)

CreateEnabledNoDuplicateCheck(thr, imgs) == thr = None /\ Len(imgs) > 0

CreateEnabled(thr, imgs) ==
    thr = None /\ Len(imgs) > 0 /\ DistinctPosixPaths(imgs)

\* _update_button_states, run at the end of a handler.
_update_button_states ==
    /\ remove_enabled' = RemoveEnabled(_thread', selection')
    /\ create_enabled' = CreateEnabled(_thread', _images')

\* ArchiveWriterThread._images: the object passed to the constructor, which
\* is the window's live collection and not a copy of it.
ThreadImages(live, at_start) == live

\* The images handed to ArchiveWriterThread by the create handler (faulty variant:
\* only the rows the filter shows).
RunInputDisplayed(imgs, p) == DisplayedRows(imgs, p)

RunInput(imgs, p) == imgs

\* QProgressBar.setValue: values outside [0, maximum] are ignored.
SetValue(cur, max, v) == IF v >= 0 /\ v <= max THEN v ELSE cur

(* ------------------------------ Init ----------------------------------- *)
Init ==
    /\ _images = << >>
    /\ regex_text = ""
    /\ pattern = None
    /\ regex_style = "white"
    /\ selection = {}
    /\ remove_enabled = RemoveEnabled(None, {})
    /\ create_enabled = CreateEnabled(None, << >>)
    /\ _thread = None
    /\ workers = << >>
    /\ nruns = 0
    /\ queue = << >>
    /\ status = "Ready"
    /\ progress_hidden = TRUE
    /\ progress_max = 100
    /\ progress_value = -1
    /\ delivered = << >>
    /\ start_images = << >>

(* ----------------------- interactive thread ----------------------------- *)
\* The table model is reset (modelReset): the view drops its selection and
\* the window's slot runs _update_button_states.
ModelReset ==
    /\ selection' = {}
    /\ _update_button_states

\* A file is added to the collection through the table view.
AddImage ==
    /\ Len(_images) < MaxImages
    /\ \E img \in Images :
          /\ \A k \in 1..Len(_images) : _images[k] # img
          /\ _images' = Append(_images, img)
    /\ UNCHANGED << regex_text, pattern, regex_style, _thread, workers, nruns,
                    queue, status, progress_hidden, progress_max,
                    progress_value, delivered, start_images >>
    /\ ModelReset

\* The user changes the selected rows of the table view.
OnSelectionChanged ==
    /\ \E sel \in SUBSET (0..(Len(DisplayedRows(_images, pattern)) - 1)) :
          /\ sel # selection
          /\ selection' = sel
    /\ UNCHANGED << _images, regex_text, pattern, regex_style, _thread, workers,
                    nruns, queue, status, progress_hidden, progress_max,
                    progress_value, delivered, start_images >>
    /\ _update_button_states

\* The table model reports changed cells (dataChanged).
OnDataChanged ==
    /\ UNCHANGED << _images, regex_text, pattern, regex_style, selection,
                    _thread, workers, nruns, queue, status, progress_hidden,
                    progress_max, progress_value, delivered, start_images >>
    /\ _update_button_states

_on_regex_line_edit_text_changed ==
    /\ \E text \in Texts :
          /\ text # regex_text
          /\ regex_text' = text
          /\ pattern' = posix_path_pattern(text)
          /\ regex_style' = StyleSheet(text)
    /\ UNCHANGED << _images, _thread, workers, nruns, queue, status,
                    progress_hidden, progress_max, progress_value, delivered,
                    start_images >>
    /\ ModelReset

_on_remove_selected_rows_button_clicked ==
    /\ remove_enabled
    /\ _images' = PopRows(_images, selection)
    /\ UNCHANGED << regex_text, pattern, regex_style, _thread, workers, nruns,
                    queue, status, progress_hidden, progress_max,
                    progress_value, delivered, start_images >>
    /\ ModelReset

_on_create_archive_button_clicked ==
    /\ create_enabled
    /\ nruns < MaxRuns
    /\ \E archive_file \in ArchiveFiles :
          IF archive_file # ""
          THEN /\ _thread' = << nruns + 1 >>
               /\ nruns' = nruns + 1
               /\ start_images' = RunInput(_images, pattern)
               /\ workers' = [ r \in DOMAIN workers \cup {nruns + 1} |->
                                 IF r = nruns + 1 THEN 0 ELSE workers[r] ]
               /\ status' = "Creating archive..."
               /\ progress_max' = Len(_images)
               /\ progress_hidden' = FALSE
               /\ progress_value' = 0
               /\ delivered' = << >>
               /\ UNCHANGED << _images, regex_text, pattern, regex_style,
                               selection, queue >>
               /\ _update_button_states
          ELSE UNCHANGED vars

\* on_thread_step, run by the event loop for the oldest queued signal.
on_thread_step ==
    /\ queue # << >>
    /\ Head(queue)[1] = "step"
    /\ queue' = Tail(queue)
    /\ delivered' = Append(delivered, Head(queue))
    /\ progress_value' =
          SetValue(progress_value, progress_max, Head(queue)[2] + 1)
    /\ UNCHANGED << _images, regex_text, pattern, regex_style, selection,
                    remove_enabled, create_enabled, _thread, workers, nruns,
                    status, progress_hidden, progress_max, start_images >>

\* (faulty variant: the handler also empties the collection)
on_thread_completed_clears_images ==
    /\ queue # << >>
    /\ Head(queue)[1] = "completed"
    /\ queue' = Tail(queue)
    /\ delivered' = Append(delivered, Head(queue))
    /\ status' = "Archive created"
    /\ progress_hidden' = TRUE
    /\ _thread' = None
    /\ _images' = << >>
    /\ UNCHANGED << regex_text, pattern, regex_style, selection,
                    workers, nruns, progress_max, progress_value,
                    start_images >>
    /\ _update_button_states

on_thread_completed ==
    /\ queue # << >>
    /\ Head(queue)[1] = "completed"
    /\ queue' = Tail(queue)
    /\ delivered' = Append(delivered, Head(queue))
    /\ status' = "Archive created"
    /\ progress_hidden' = TRUE
    /\ _thread' = None
    /\ UNCHANGED << _images, regex_text, pattern, regex_style, selection,
                    workers, nruns, progress_max, progress_value,
                    start_images >>
    /\ _update_button_states

\* (faulty variant: the handler leaves _thread set)
on_thread_error_keeps_thread ==
    /\ queue # << >>
    /\ Head(queue)[1] = "error"
    /\ queue' = Tail(queue)
    /\ delivered' = Append(delivered, Head(queue))
    /\ status' = "Error"
    /\ progress_hidden' = TRUE
    /\ UNCHANGED << _images, regex_text, pattern, regex_style, selection,
                    _thread, workers, nruns, progress_max, progress_value,
                    start_images >>
    /\ _update_button_states

on_thread_error ==
    /\ queue # << >>
    /\ Head(queue)[1] = "error"
    /\ queue' = Tail(queue)
    /\ delivered' = Append(delivered, Head(queue))
    /\ status' = "Error"
    /\ progress_hidden' = TRUE
    /\ _thread' = None
    /\ UNCHANGED << _images, regex_text, pattern, regex_style, selection,
                    workers, nruns, progress_max, progress_value,
                    start_images >>
    /\ _update_button_states

(* --------------------------- worker thread ----------------------------- *)
\* write_archive(archive_file, images): a generator that archives the images
\* of the sequence it was given one by one, in order, and yields each.
\* After i images it has a next one while the sequence is longer than i.
WriterHasNext(imgs, i) == i < Len(imgs)

WriterNext(imgs, i) == imgs[i + 1]

Finished(r) == [ x \in DOMAIN workers \ {r} |-> workers[x] ]

\* One iteration of the loop of run(): write_archive yields the next image
\* of the thread's sequence and run() emits step with its enumerate index.
RunStep(r) ==
    /\ r \in DOMAIN workers
    /\ WriterHasNext(ThreadImages(_images, start_images), workers[r])
    /\ queue' = Append(queue,
          << "step", workers[r],
             WriterNext(ThreadImages(_images, start_images), workers[r]) >>)
    /\ workers' = [ workers EXCEPT ![r] = @ + 1 ]
    /\ UNCHANGED << _images, regex_text, pattern, regex_style, selection,
                    remove_enabled, create_enabled, _thread, nruns, status,
                    progress_hidden, progress_max, progress_value, delivered,
                    start_images >>

\* write_archive is exhausted: run() emits completed and returns.
RunCompleted(r) ==
    /\ r \in DOMAIN workers
    /\ ~WriterHasNext(ThreadImages(_images, start_images), workers[r])
    /\ queue' = Append(queue, << "completed" >>)
    /\ workers' = Finished(r)
    /\ UNCHANGED << _images, regex_text, pattern, regex_style, selection,
                    remove_enabled, create_enabled, _thread, nruns, status,
                    progress_hidden, progress_max, progress_value, delivered,
                    start_images >>

\* (faulty variant: the error is reported and the loop goes on to the next image)
RunErrorContinues(r) ==
    /\ r \in DOMAIN workers
    /\ WriterHasNext(ThreadImages(_images, start_images), workers[r])
    /\ queue' = Append(queue, << "error", workers[r] >>)
    /\ workers' = [ workers EXCEPT ![r] = @ + 1 ]
    /\ UNCHANGED << _images, regex_text, pattern, regex_style, selection,
                    remove_enabled, create_enabled, _thread, nruns, status,
                    progress_hidden, progress_max, progress_value, delivered,
                    start_images >>

\* write_archive raises while it archives the next image (a source file
\* cannot be read, the destination cannot be written): run() emits error
\* and returns.  The error is identified by the index it was raised at.
RunError(r) ==
    /\ r \in DOMAIN workers
    /\ WriterHasNext(ThreadImages(_images, start_images), workers[r])
    /\ queue' = Append(queue, << "error", workers[r] >>)
    /\ workers' = Finished(r)
    /\ UNCHANGED << _images, regex_text, pattern, regex_style, selection,
                    remove_enabled, create_enabled, _thread, nruns, status,
                    progress_hidden, progress_max, progress_value, delivered,
                    start_images >>

Worker == \E r \in 1..MaxRuns : RunStep(r) \/ RunCompleted(r) \/ RunError(r)

EventLoop == on_thread_step \/ on_thread_completed \/ on_thread_error

Next ==
    \/ AddImage
    \/ OnSelectionChanged
    \/ OnDataChanged
    \/ _on_regex_line_edit_text_changed
    \/ _on_remove_selected_rows_button_clicked
    \/ _on_create_archive_button_clicked
    \/ on_thread_step
    \/ on_thread_completed
    \/ on_thread_error
    \/ \E r \in 1..MaxRuns : RunStep(r)
    \/ \E r \in 1..MaxRuns : RunCompleted(r)
    \/ \E r \in 1..MaxRuns : RunError(r)

Spec == Init /\ [][Next]_vars

\* The worker thread is scheduled and the event loop keeps running.
LiveSpec == Spec /\ WF_vars(Worker) /\ WF_vars(EventLoop)

(* ------------------------------ claims --------------------------------- *)
\* The signals of the current run in emission order: those already handled
\* followed by those still queued.
Emitted == delivered \o queue

IsTerminal(n) == n[1] \in {"completed", "error"}

TerminalCount(s) == Cardinality({ k \in 1..Len(s) : IsTerminal(s[k]) })

\* C1: the steps handled by the interactive thread carry 0, 1, ... in
\* order without gaps or repeats, all of them before the terminal signal,
\* and a run that completed has delivered exactly the steps 0..N-1 for the
\* N images it was started on.
C1_StepsZeroToNMinusOne ==
    /\ \A k \in 1..Len(delivered) :
          /\ delivered[k][1] = "step" => delivered[k][2] = k - 1
          /\ IsTerminal(delivered[k]) => k = Len(delivered)
    /\ \A k \in 1..Len(delivered) :
          delivered[k][1] = "completed" => k - 1 = Len(start_images)

\* C2: an error raised at item k is emitted once, after exactly the steps
\* 0..k-1, with no completed and nothing after it, and the worker has
\* stopped (no retry).
C2_ErrorEndsRun ==
    \A k \in 1..Len(Emitted) :
        Emitted[k][1] = "error" =>
            /\ k = Len(Emitted)
            /\ Emitted[k][2] = k - 1
            /\ \A j \in 1..(k - 1) :
                  Emitted[j][1] = "step" /\ Emitted[j][2] = j - 1
            /\ DOMAIN workers = {}

C2_Witness ==
    /\ Len(delivered) = 2
    /\ delivered[1][1] = "step"
    /\ delivered[2] = << "error", 1 >>
    /\ Len(start_images) = 2
    /\ _thread = None

\* C3: the sequence a running worker iterates over is the collection as it
\* was when the run was started.
C3_RunUsesSnapshot ==
    DOMAIN workers # {} => ThreadImages(_images, start_images) = start_images

\* C4: at most one worker runs at a time, and a new ArchiveWriterThread is
\* created only when _thread is None, no worker runs and no signal of the
\* previous run is pending.
C4_OneRunAtATime ==
    /\ [](Cardinality(DOMAIN workers) <= 1)
    /\ [][ nruns' # nruns =>
              _thread = None /\ DOMAIN workers = {} /\ queue = << >> ]_vars

C4_Witness ==
    /\ nruns = 2
    /\ DOMAIN workers = {2}
    /\ _thread = << 2 >>

\* C5: while two images of the collection share a posix_path the create
\* button is disabled, and the images handed to a started run have pairwise
\* distinct posix_paths.
C5_NoDuplicatePathsInRun ==
    /\ ~DistinctPosixPaths(_images) => ~create_enabled
    /\ DistinctPosixPaths(start_images)

C5_Witness ==
    /\ nruns > 0
    /\ Len(start_images) = 2
    /\ _thread = None
    /\ ~DistinctPosixPaths(_images)
    /\ ~create_enabled

\* C6: while _thread is set, the remove button and the create button are
\* disabled.
C6_ControlsDisabledDuringRun ==
    _thread # None => ~remove_enabled /\ ~create_enabled

C6_Witness ==
    /\ _thread # None
    /\ selection # {}
    /\ DistinctPosixPaths(_images)
    /\ pattern # None
    /\ Len(delivered) > 0

\* C7: a started run emits at most one terminal signal, _thread is cleared
\* only by the handler of that signal once the worker has stopped, and
\* every started run leads to the idle window: terminal signal handled,
\* _thread None, progress bar hidden, create button available again for a
\* non-empty duplicate-free collection.
C7_RunTerminates ==
    /\ [](TerminalCount(Emitted) <= 1)
    /\ [][ (_thread # None /\ _thread' = None) =>
              /\ queue # << >>
              /\ IsTerminal(Head(queue))
              /\ DOMAIN workers = {} ]_vars
    /\ (_thread # None) ~>
          /\ _thread = None
          /\ progress_hidden
          /\ TerminalCount(delivered) = 1
          /\ queue = << >>
          /\ create_enabled = (Len(_images) > 0 /\ DistinctPosixPaths(_images))

C7_Witness ==
    /\ nruns = 2
    /\ _thread = None
    /\ progress_hidden
    /\ Len(delivered) = 3
    /\ delivered[3] = << "completed" >>

\* C8: a step that starts a run, lets the worker emit, or handles a step,
\* completed or error signal leaves the image collection as it was.
C8_ExportKeepsCollection ==
    [][ (_thread' # _thread \/ workers' # workers \/ queue' # queue) =>
          _images' = _images ]_vars

C8_Witness ==
    /\ nruns = 2
    /\ _thread = None
    /\ status = "Archive created"
    /\ Len(_images) = 2
    /\ _images = start_images

\* C9: changing the filter text leaves the collection unchanged, an empty
\* or invalid text means no pattern, and a run started under any filter is
\* handed the whole collection in order.
C9_FilterDoesNotNarrowExport ==
    /\ [](regex_text \in {"", "["} => pattern = None)
    /\ [][ /\ regex_text' # regex_text => _images' = _images
           /\ nruns' # nruns => start_images' = _images ]_vars

C9_Witness ==
    /\ _thread # None
    /\ pattern # None
    /\ \E k \in 1..Len(delivered) :
          /\ delivered[k][1] = "step"
          /\ ~Shown(delivered[k][3], pattern)
          /\ delivered[k][3] = _images[k]

\* C10: removing the selected rows removes exactly the images displayed in
\* those rows and keeps the others in order.
C10_RemovesDisplayedRows ==
    [][ Len(_images') < Len(_images) =>
          _images' = SelectSeq(_images, LAMBDA img :
              img \notin { DisplayedRows(_images, pattern)[r + 1] :
                             r \in selection }) ]_vars

=============================================================================
